---------------------------- MODULE Spec2Model ----------------------------
(***************************************************************************)
(* Ant colony optimisation for the quadratic assignment problem            *)
(* (src/main.py): generate_path, get_fitness, update_pheromones, main and  *)
(* experiments, as state machines.                                         *)
(*                                                                         *)
(* Python lists and numpy arrays are sequences; position k of the source   *)
(* (0-based) is element k+1 here.  Floating-point values are exact         *)
(* rationals extended with +inf, -inf and NaN, so rounding is not          *)
(* modelled.                                                               *)
(***************************************************************************)
EXTENDS Integers, Sequences, FiniteSets, Bags, TLC

VARIABLES
    pc,                    \* position in the function under study
    n, start, pheromones,  \* generate_path / main
    path, i, j,            \* loop state of generate_path and get_fitness
    d, f, fitness,         \* get_fitness / main
    oneover, p, x,         \* update_pheromones; x is also main's loop index
    m, e, y,               \* main(m, e) and its inner loop index
    best_fitness, iterations, total_fitness,
    pheromone_update, average_fitness_list,
    rep, biglist, bestlist, written,   \* experiments
    evaluated,             \* history: fitness of every ant of the run so far
    ants,                  \* history: the bag of <<path, fitness>> of this iteration's ants
    at_entry,              \* history: the arguments as they were at the call
    pher_inits,            \* history: pheromone matrices initialised so far
    ants_built             \* history: ants built and scored so far

vars == <<pc, n, start, pheromones, path, i, j, d, f, fitness, oneover, p, x,
          m, e, y, best_fitness, iterations, total_fitness, pheromone_update,
          average_fitness_list, rep, biglist, bestlist, written, evaluated,
          ants, at_entry, pher_inits, ants_built>>

---------------------------------------------------------------------------
(* Bounds of the model.                                                    *)
MaxPathN == 4     \* generate_path: n ranges over 0..MaxPathN
MaxFitN == 3      \* get_fitness: path lengths 1..MaxFitN
MaxDepN == 3      \* update_pheromones: n ranges over 1..MaxDepN
MaxDepFitness == 3 \* update_pheromones: oneover = 1/fitness, fitness in 1..
MaxAnts == 2      \* main: colony sizes 1..MaxAnts
MaxIter == 2      \* main: the iteration loop is followed this far

---------------------------------------------------------------------------
(* Extended rationals standing for float / longdouble values.              *)
(* den = 0: num = 1 is +inf, num = -1 is -inf, num = 0 is NaN.             *)

Abs(a) == IF a < 0 THEN -a ELSE a

Sign(a) == IF a < 0 THEN -1 ELSE IF a > 0 THEN 1 ELSE 0

RECURSIVE GCD(_, _)
GCD(a, b) == IF b = 0 THEN a ELSE GCD(b, a % b)

Rat(a, b) ==
    IF b = 0 THEN [num |-> Sign(a), den |-> 0]
    ELSE LET g == GCD(Abs(a), Abs(b))
             s == Sign(b)
         IN  [num |-> (s * a) \div g, den |-> (s * b) \div g]

FromInt(a) == Rat(a, 1)
Zero == FromInt(0)
Inf == Rat(1, 0)
NaN == Rat(0, 0)

IsNaN(a) == a.den = 0 /\ a.num = 0
IsFinite(a) == a.den # 0

RAdd(a, b) ==
    IF a.den = 0 /\ b.den = 0 THEN (IF a.num = b.num THEN a ELSE NaN)
    ELSE IF a.den = 0 THEN a
    ELSE IF b.den = 0 THEN b
    ELSE Rat(a.num * b.den + b.num * a.den, a.den * b.den)

RMul(a, b) == Rat(a.num * b.num, a.den * b.den)

\* a < b as IEEE compares: false as soon as either side is NaN
RLess(a, b) == ~IsNaN(a) /\ ~IsNaN(b) /\ a.num * b.den < b.num * a.den

RNonNeg(a) == ~IsNaN(a) /\ a.num >= 0

RECURSIVE RSum(_)
RSum(s) == IF s = <<>> THEN Zero ELSE RAdd(Head(s), RSum(Tail(s)))

---------------------------------------------------------------------------
(* numpy helpers                                                           *)

\* np.arange(0, k)
Arange(k) == [q \in 1..(IF k > 0 THEN k ELSE 0) |-> q - 1]

\* whether index k is accepted by an array of length len (negatives wrap)
InBounds(k, len) == -len <= k /\ k < len

\* the 1-based position that Python index k denotes in a length-len array
Pos(k, len) == IF k < 0 THEN k + len + 1 ELSE k + 1

RECURSIVE Keep(_, _, _)
Keep(arr, gone, q) ==
    IF q > Len(arr) THEN <<>>
    ELSE (IF q \in gone THEN <<>> ELSE <<arr[q]>>) \o Keep(arr, gone, q + 1)

\* np.delete(arr, obj) for an integer array obj: the elements of arr whose
\* position is not named by obj (negative indices count from the end); an
\* index out of bounds raises IndexError (numpy 1.19 and later).
NpDelete(arr, obj) ==
    IF \E q \in 1..Len(obj) : ~InBounds(obj[q], Len(arr))
    THEN [err |-> "IndexError", val |-> <<>>]
    ELSE [err |-> "",
          val |-> Keep(arr, {Pos(obj[q], Len(arr)) : q \in 1..Len(obj)}, 1)]

---------------------------------------------------------------------------
(* random.choices(population, weights=weights, k=1): a list holding one    *)
(* element of population, drawn with probability proportional to weight.   *)
(* A total weight that is zero or not finite raises ValueError since       *)
(* Python 3.9; older interpreters bisect to the last element instead.     *)
(* Both outcomes are kept.                                                 *)

Choices(population, weights) ==
    LET total == RSum(weights)
    IN  IF population = <<>>
        THEN {[err |-> "IndexError", val |-> <<>>]}
        ELSE IF Len(weights) # Len(population)
        THEN {[err |-> "ValueError", val |-> <<>>]}
        ELSE IF ~IsFinite(total) \/ ~RLess(Zero, total)
        THEN {[err |-> "ValueError", val |-> <<>>],
              [err |-> "", val |-> <<population[Len(population)]>>]}
        ELSE {[err |-> "", val |-> <<population[q]>>] :
                 q \in {q \in 1..Len(population) : RLess(Zero, weights[q])}}

---------------------------------------------------------------------------
(* generate_path(n, start, pheromones)                                     *)

Raised(err, pa) == [err |-> err, val |-> pa]

\* a slip: only the node visited last is removed from the candidates
GenBodyDeleteLastOnly(nn, ph, pa, ii) ==
    LET next_nodes == NpDelete(Arange(nn), <<pa[Len(pa)]>>)
        last == pa[Len(pa)]
    IN  IF next_nodes.err # "" THEN {Raised(next_nodes.err, pa)}
        ELSE IF ii = nn - 1
        THEN {[err |-> "", val |-> Append(pa, next_nodes.val[1])]}
        ELSE {[err |-> c.err, val |-> pa \o c.val] :
                c \in Choices(next_nodes.val,
                        NpDelete(ph[Pos(last, Len(ph))], <<last>>).val)}

\* One pass of the loop body (lines 45-51) with loop index ii: the set of
\* possible outcomes, each the extended path or an exception.
GenBody(nn, ph, pa, ii) ==
    LET next_nodes == NpDelete(Arange(nn), pa)
        last == pa[Len(pa)]
    IN  IF next_nodes.err # "" THEN {Raised(next_nodes.err, pa)}
        ELSE IF ii = nn - 1
        THEN IF next_nodes.val = <<>> THEN {Raised("IndexError", pa)}
             ELSE {[err |-> "", val |-> Append(pa, next_nodes.val[1])]}
        ELSE IF ~InBounds(last, Len(ph)) THEN {Raised("IndexError", pa)}
        ELSE LET next_pheromones == NpDelete(ph[Pos(last, Len(ph))], pa)
             IN  IF next_pheromones.err # ""
                 THEN {Raised(next_pheromones.err, pa)}
                 ELSE {[err |-> c.err, val |-> pa \o c.val] :
                         c \in Choices(next_nodes.val, next_pheromones.val)}

RECURSIVE GenLoop(_, _, _, _)
GenLoop(nn, ph, pa, ii) ==
    IF ii >= nn THEN {[err |-> "", val |-> pa]}
    ELSE UNION {IF o.err # "" THEN {o} ELSE GenLoop(nn, ph, o.val, ii + 1) :
                   o \in GenBody(nn, ph, pa, ii)}

\* every outcome generate_path can have: a returned path or an exception
generate_path(nn, st, ph) == GenLoop(nn, ph, <<st>>, 1)

\* Pheromone matrices the paths are built from: uniform, all distinct,
\* chequered with zeros, a single attractive column, and all zero.
PherKinds == 0..4

PherMatrix(k, nn) ==
    [a \in 1..nn |-> [b \in 1..nn |->
        CASE k = 0 -> Rat(1, 2)
          [] k = 1 -> Rat((a - 1) * nn + b, nn * nn + 1)
          [] k = 2 -> IF (a + b) % 2 = 0 THEN Zero ELSE Rat(1, 2)
          [] k = 3 -> IF b = 1 THEN Rat(1, 4) ELSE Zero
          [] OTHER -> Zero]]

Idle == <<>>

InitPath ==
    /\ pc = "gp_loop"
    /\ n \in 0..MaxPathN
    /\ start \in (-2)..MaxPathN
    /\ \E k \in PherKinds : pheromones = PherMatrix(k, n)
    /\ path = <<start>>
    /\ i = 1
    /\ at_entry = [n |-> n, start |-> start, pheromones |-> pheromones]
    /\ j = Idle /\ d = Idle /\ f = Idle /\ fitness = Idle /\ oneover = Idle
    /\ p = Idle /\ x = Idle /\ m = Idle /\ e = Idle /\ y = Idle
    /\ best_fitness = Idle /\ iterations = Idle /\ total_fitness = Idle
    /\ pheromone_update = Idle /\ average_fitness_list = Idle
    /\ rep = Idle /\ biglist = Idle /\ bestlist = Idle /\ written = Idle
    /\ evaluated = Idle /\ ants = Idle
    /\ pher_inits = Idle /\ ants_built = Idle

PathFrame ==
    UNCHANGED <<n, start, pheromones, j, d, f, fitness, oneover, p, x, m, e, y,
                best_fitness, iterations, total_fitness, pheromone_update,
                average_fitness_list, rep, biglist, bestlist, written,
                evaluated, ants, at_entry, pher_inits, ants_built>>

\* for i in range(1, n): one pass of the body
GenStep ==
    /\ pc = "gp_loop"
    /\ i < n
    /\ \E o \in GenBody(n, pheromones, path, i) :
          /\ path' = o.val
          /\ pc' = IF o.err = "" THEN "gp_loop" ELSE "gp_raise"
    /\ i' = i + 1
    /\ PathFrame

\* return path
GenReturn ==
    /\ pc = "gp_loop"
    /\ i >= n
    /\ pc' = "gp_return"
    /\ UNCHANGED <<path, i>>
    /\ PathFrame

NextPath == GenStep \/ GenReturn

SpecPath == InitPath /\ [][NextPath]_vars

IsPermutation(pa, nn) ==
    /\ Len(pa) = nn
    /\ \A v \in 0..(nn - 1) : Cardinality({q \in 1..Len(pa) : pa[q] = v}) = 1

AllPositive(ph) ==
    \A a \in 1..Len(ph) : \A b \in 1..Len(ph[a]) : RLess(Zero, ph[a][b])

ValidPathInput == n >= 1 /\ start \in 0..(n - 1) /\ AllPositive(pheromones)

\* C1: for n >= 1, start in [0, n) and positive weights, generate_path
\* raises nothing and what it returns has length n, begins with start and
\* holds each integer of [0, n) exactly once, whatever was drawn.
C1_PathIsPermutation ==
    ValidPathInput =>
        /\ pc # "gp_raise"
        /\ pc = "gp_return" => IsPermutation(path, n) /\ path[1] = start

\* a path of at least three nodes, built with a real random draw, returned
C1_Witness ==
    /\ ValidPathInput
    /\ pc = "gp_return"
    /\ n >= 3
    /\ path[2] # NpDelete(Arange(n), <<start>>).val[1]

\* C8: generate_path fails whenever n < 1 or start is outside [0, n); it
\* never returns a sequence with a value outside [0, n) or of length # n.
C8_RejectsBadInput ==
    pc = "gp_return" =>
        /\ n >= 1 /\ start \in 0..(n - 1)
        /\ Len(path) = n
        /\ \A q \in 1..Len(path) : path[q] \in 0..(n - 1)

---------------------------------------------------------------------------
(* get_fitness(path, d, f)                                                 *)

\* a slip: the distance indexed by facility and the flow by position
FitTermSwapped(pa, dd, ff, ii, jj) ==
    dd[pa[ii + 1] + 1][pa[jj + 1] + 1] * ff[ii + 1][jj + 1]

\* d[i][j] * f[path[i]][path[j]] (line 71)
FitTerm(pa, dd, ff, ii, jj) ==
    dd[ii + 1][jj + 1] * ff[pa[ii + 1] + 1][pa[jj + 1] + 1]

\* the two nested loops from (ii, jj) on, added to acc
RECURSIVE FitLoop(_, _, _, _, _, _)
FitLoop(pa, dd, ff, ii, jj, acc) ==
    IF ii >= Len(pa) THEN acc
    ELSE IF jj >= Len(pa) THEN FitLoop(pa, dd, ff, ii + 1, 0, acc)
    ELSE FitLoop(pa, dd, ff, ii, jj + 1, acc + FitTerm(pa, dd, ff, ii, jj))

get_fitness(pa, dd, ff) == FitLoop(pa, dd, ff, 0, 0, 0)

\* Distance and flow matrices: |i-j|, all distinct, ones off the diagonal,
\* all zero, and the row index alone.
MatKinds == 0..4

IntMatrix(k, nn) ==
    [a \in 1..nn |-> [b \in 1..nn |->
        CASE k = 0 -> Abs(a - b)
          [] k = 1 -> (a - 1) * nn + b
          [] k = 2 -> IF a = b THEN 0 ELSE 1
          [] k = 3 -> 0
          [] OTHER -> a - 1]]

PermutationsOf(nn) == {s \in [1..nn -> 0..(nn - 1)] : IsPermutation(s, nn)}

InitFit ==
    /\ pc = "gf_loop"
    /\ n \in 1..MaxFitN
    /\ path \in PermutationsOf(n)
    /\ \E k \in MatKinds : d = IntMatrix(k, n)
    /\ \E k \in MatKinds : f = IntMatrix(k, n)
    /\ fitness = 0
    /\ i = 0
    /\ j = 0
    /\ at_entry = [path |-> path, d |-> d, f |-> f]
    /\ start = Idle /\ pheromones = Idle /\ oneover = Idle
    /\ p = Idle /\ x = Idle /\ m = Idle /\ e = Idle /\ y = Idle
    /\ best_fitness = Idle /\ iterations = Idle /\ total_fitness = Idle
    /\ pheromone_update = Idle /\ average_fitness_list = Idle
    /\ rep = Idle /\ biglist = Idle /\ bestlist = Idle /\ written = Idle
    /\ evaluated = Idle /\ ants = Idle
    /\ pher_inits = Idle /\ ants_built = Idle

FitFrame ==
    UNCHANGED <<n, start, pheromones, path, d, f, oneover, p, x, m, e, y,
                best_fitness, iterations, total_fitness, pheromone_update,
                average_fitness_list, rep, biglist, bestlist, written,
                evaluated, ants, at_entry, pher_inits, ants_built>>

\* the body of the inner loop, and the move to the next (i, j)
FitStep ==
    /\ pc = "gf_loop"
    /\ i < Len(path)
    /\ fitness' = fitness + FitTerm(path, d, f, i, j)
    /\ IF j + 1 < Len(path)
       THEN i' = i /\ j' = j + 1
       ELSE i' = i + 1 /\ j' = 0
    /\ pc' = "gf_loop"
    /\ FitFrame

\* return fitness
FitReturn ==
    /\ pc = "gf_loop"
    /\ i >= Len(path)
    /\ pc' = "gf_return"
    /\ UNCHANGED <<fitness, i, j>>
    /\ FitFrame

NextFit == FitStep \/ FitReturn

SpecFit == InitFit /\ [][NextFit]_vars

RECURSIVE SumOver(_, _)
SumOver(S, g) ==
    IF S = {} THEN 0
    ELSE LET c == CHOOSE c \in S : TRUE IN g[c] + SumOver(S \ {c}, g)

\* the sum over all ordered pairs of positions of D[i][j] * F[pa[i]][pa[j]]
QapCost(pa, dd, ff) ==
    LET Pairs == (1..Len(pa)) \X (1..Len(pa))
    IN  SumOver(Pairs, [c \in Pairs |->
            dd[c[1]][c[2]] * ff[pa[c[1]] + 1][pa[c[2]] + 1]])

\* C2: get_fitness returns the sum over all ordered pairs (i, j) of
\* D[i][j] * F[path[i]][path[j]], and path, D and F are as they were.
C2_FitnessIsQapCost ==
    /\ path = at_entry.path /\ d = at_entry.d /\ f = at_entry.f
    /\ pc = "gf_return" =>
          fitness = QapCost(at_entry.path, at_entry.d, at_entry.f)

\* a non-identity path scored on asymmetric distances and flows
C2_Witness ==
    /\ pc = "gf_return"
    /\ n >= 3
    /\ path # Arange(n)
    /\ d = IntMatrix(1, n) /\ f = IntMatrix(4, n)
    /\ fitness > 0

---------------------------------------------------------------------------
(* update_pheromones(oneover, path, n)                                     *)

Zeros(nn) == [a \in 1..nn |-> [b \in 1..nn |-> Zero]]

\* a slip: the cell is assigned, not added to
DepositEdgeOverwrite(pp, pa, xx, oo) ==
    [pp EXCEPT ![pa[xx + 1] + 1][pa[xx + 2] + 1] = oo]

\* p[path[x]][path[x+1]] += oneover (line 89)
DepositEdge(pp, pa, xx, oo) ==
    [pp EXCEPT ![pa[xx + 1] + 1][pa[xx + 2] + 1] = RAdd(@, oo)]

RECURSIVE DepLoop(_, _, _, _)
DepLoop(pp, pa, xx, oo) ==
    IF xx >= Len(pa) - 1 THEN pp
    ELSE DepLoop(DepositEdge(pp, pa, xx, oo), pa, xx + 1, oo)

update_pheromones(oo, pa, nn) == DepLoop(Zeros(nn), pa, 0, oo)

InitDep ==
    /\ pc = "up_loop"
    /\ n \in 1..MaxDepN
    /\ path \in [1..n -> 0..(n - 1)]
    /\ fitness \in 1..MaxDepFitness
    /\ oneover = Rat(1, fitness)
    /\ p = Zeros(n)
    /\ x = 0
    /\ at_entry = [path |-> path, oneover |-> oneover]
    /\ start = Idle /\ pheromones = Idle /\ i = Idle /\ j = Idle
    /\ d = Idle /\ f = Idle /\ m = Idle /\ e = Idle /\ y = Idle
    /\ best_fitness = Idle /\ iterations = Idle /\ total_fitness = Idle
    /\ pheromone_update = Idle /\ average_fitness_list = Idle
    /\ rep = Idle /\ biglist = Idle /\ bestlist = Idle /\ written = Idle
    /\ evaluated = Idle /\ ants = Idle
    /\ pher_inits = Idle /\ ants_built = Idle

DepFrame ==
    UNCHANGED <<n, start, pheromones, path, i, j, d, f, fitness, oneover, m, e,
                y, best_fitness, iterations, total_fitness, pheromone_update,
                average_fitness_list, rep, biglist, bestlist, written,
                evaluated, ants, at_entry, pher_inits, ants_built>>

\* for x in range(len(path) - 1): one pass of the body
DepStep ==
    /\ pc = "up_loop"
    /\ x < Len(path) - 1
    /\ p' = DepositEdge(p, path, x, oneover)
    /\ x' = x + 1
    /\ pc' = "up_loop"
    /\ DepFrame

\* return p
DepReturn ==
    /\ pc = "up_loop"
    /\ x >= Len(path) - 1
    /\ pc' = "up_return"
    /\ UNCHANGED <<p, x>>
    /\ DepFrame

NextDep == DepStep \/ DepReturn

SpecDep == InitDep /\ [][NextDep]_vars

\* how many x in [0, n-2] have pa[x] = a and pa[x+1] = b (a, b 0-based)
EdgeCount(pa, a, b) ==
    Cardinality({q \in 1..(Len(pa) - 1) : pa[q] = a /\ pa[q + 1] = b})

MatTotal(mat) == RSum([a \in 1..Len(mat) |-> RSum(mat[a])])

\* C9: for fitness > 0 the matrix update_pheromones returns holds in cell
\* [a][b] the number of steps of the path from a to b times 1/fitness, so
\* repeated edges add up and all entries sum to (n-1) * (1/fitness).
C9_DepositCountsEdges ==
    pc = "up_return" =>
        /\ Len(p) = n
        /\ \A a \in 1..n : Len(p[a]) = n
        /\ \A a, b \in 1..n :
              p[a][b] = RMul(FromInt(EdgeCount(path, a - 1, b - 1)), oneover)
        /\ MatTotal(p) = RMul(FromInt(n - 1), oneover)

\* a path that takes the same directed edge twice
C9_Witness ==
    /\ pc = "up_return"
    /\ \E a, b \in 1..n : EdgeCount(path, a - 1, b - 1) = 2
    /\ fitness > 1

---------------------------------------------------------------------------
(* main(m, e): one run.  The state after lines 94-108 is the initial       *)
(* state; the loop over x is followed for MaxIter iterations.              *)

EvaluationBudget == 10000

\* a slip: the quotient rounded up
IntRoundUp(a, b) == (a + b - 1) \div b

\* int(a / b) for b # 0: the quotient truncated towards zero
IntTrunc(a, b) ==
    IF (a < 0) = (b < 0) THEN Abs(a) \div Abs(b) ELSE -(Abs(a) \div Abs(b))

\* np.add on two matrices of one shape
MatAdd(A, B) ==
    [a \in 1..Len(A) |-> [b \in 1..Len(A[a]) |-> RAdd(A[a][b], B[a][b])]]

\* a slip: the rate is subtracted from every link
EvaporateBySubtracting(ph, ee) ==
    [a \in 1..Len(ph) |-> [b \in 1..Len(ph[a]) |->
        RAdd(ph[a][b], RMul(FromInt(-1), ee))]]

\* pheromones *= e (line 124)
Evaporate(ph, ee) ==
    [a \in 1..Len(ph) |-> [b \in 1..Len(ph[a]) |-> RMul(ph[a][b], ee)]]

\* a slip: the links evaporate before the deposit is added
EvaporateThenDeposit(ph, upd, ee) == MatAdd(Evaporate(ph, ee), upd)

\* pheromones = np.add(pheromones, pheromone_update); pheromones *= e
ApplyAndEvaporate(ph, upd, ee) == Evaporate(MatAdd(ph, upd), ee)

\* a slip: the test is left out and every ant overwrites the best
BestUpdateUnconditional(fit, best) == FromInt(fit)

\* if fitness < best_fitness: best_fitness = fitness (lines 117-118)
BestUpdate(fit, best) == IF RLess(FromInt(fit), best) THEN FromInt(fit) ELSE best

\* np.longdouble(1) / np.longdouble(fitness): numpy divides by zero to inf
\* (a RuntimeWarning, no exception)
Reciprocal(fit) == Rat(1, fit)

EvaporationRates == {Rat(1, 2), Rat(1, 1)}

\* problem sizes of the runs: no edge, no draw, one draw per path
RunSizes == {1, 2, 3}

InitRun ==
    /\ pc = "iter"
    /\ best_fitness = Inf
    /\ n \in RunSizes
    /\ \E k \in MatKinds : d = IntMatrix(k, n)
    /\ \E k \in MatKinds : f = IntMatrix(k, n)
    /\ \E k \in PherKinds : pheromones = PherMatrix(k, n)
    /\ m \in 1..MaxAnts
    /\ e \in EvaporationRates
    /\ iterations = IntTrunc(EvaluationBudget, m)
    /\ start \in 0..(n - 1)
    /\ average_fitness_list = <<>>
    /\ x = 0
    /\ y = 0
    /\ total_fitness = 0
    /\ pheromone_update = Zeros(n)
    /\ path = <<>>
    /\ fitness = 0
    /\ oneover = Zero
    /\ evaluated = {}
    /\ ants = EmptyBag
    /\ at_entry = [pheromones |-> pheromones, d |-> d, f |-> f, e |-> e]
    /\ i = Idle /\ j = Idle /\ p = Idle
    /\ rep = Idle /\ biglist = Idle /\ bestlist = Idle /\ written = Idle
    /\ pher_inits = Idle /\ ants_built = Idle

RunFrame ==
    UNCHANGED <<n, start, i, j, d, f, p, m, e, iterations, rep, biglist,
                bestlist, written, at_entry, pher_inits, ants_built>>

\* for x in range(iterations): lines 111-112
BeginIteration ==
    /\ pc = "iter"
    /\ x < iterations
    /\ x < MaxIter
    /\ total_fitness' = 0
    /\ pheromone_update' = Zeros(n)
    /\ y' = 0
    /\ ants' = EmptyBag
    /\ pc' = "ants"
    /\ UNCHANGED <<pheromones, path, fitness, oneover, x, best_fitness,
                   average_fitness_list, evaluated>>
    /\ RunFrame

\* for y in range(m): lines 115-121, one ant
Ant ==
    /\ pc = "ants"
    /\ y < m
    /\ \E o \in generate_path(n, start, pheromones) :
          IF o.err # ""
          THEN /\ pc' = "raise"
               /\ UNCHANGED <<path, fitness, best_fitness, total_fitness,
                              oneover, pheromone_update, y, evaluated, ants>>
          ELSE /\ path' = o.val
               /\ fitness' = get_fitness(path', d, f)
               /\ best_fitness' = BestUpdate(fitness', best_fitness)
               /\ total_fitness' = total_fitness + fitness'
               /\ oneover' = Reciprocal(fitness')
               /\ pheromone_update' =
                     MatAdd(pheromone_update,
                            update_pheromones(oneover', path', n))
               /\ y' = y + 1
               /\ evaluated' = evaluated \cup {fitness'}
               /\ ants' = ants (+) SetToBag({<<path', fitness'>>})
               /\ pc' = "ants"
    /\ UNCHANGED <<pheromones, x, average_fitness_list>>
    /\ RunFrame

\* after the last ant: lines 123-126
EndIteration ==
    /\ pc = "ants"
    /\ y >= m
    /\ pheromones' = ApplyAndEvaporate(pheromones, pheromone_update, e)
    /\ average_fitness_list' = Append(average_fitness_list, Rat(total_fitness, m))
    /\ x' = x + 1
    /\ pc' = "iter"
    /\ UNCHANGED <<path, fitness, oneover, y, best_fitness, total_fitness,
                   pheromone_update, evaluated, ants>>
    /\ RunFrame

NextRun == BeginIteration \/ Ant \/ EndIteration

SpecRun == InitRun /\ [][NextRun]_vars

MinOf(S) == CHOOSE v \in S : \A w \in S : v <= w

\* C4: best_fitness starts at +infinity, no step of a run increases it, and
\* at every point it is the least fitness of the ants evaluated so far.
C4_BestIsRunningMin ==
    /\ best_fitness = Inf
    /\ [](best_fitness =
            IF evaluated = {} THEN Inf ELSE FromInt(MinOf(evaluated)))
    /\ [][~RLess(best_fitness, best_fitness')]_vars

\* an ant scored worse than an earlier one and the best was kept
C4_Witness ==
    /\ pc = "ants"
    /\ Cardinality(evaluated) >= 2
    /\ fitness > MinOf(evaluated)
    /\ best_fitness = FromInt(MinOf(evaluated))
    /\ best_fitness # Inf

NonNegInts(mat) == \A a \in 1..Len(mat) : \A b \in 1..Len(mat[a]) : mat[a][b] >= 0

One == FromInt(1)

RunPreconditions ==
    /\ NonNegInts(at_entry.d) /\ NonNegInts(at_entry.f)
    /\ RLess(Zero, at_entry.e) /\ ~RLess(One, at_entry.e)
    /\ \A a \in 1..n : \A b \in 1..n :
          RNonNeg(at_entry.pheromones[a][b]) /\ RLess(at_entry.pheromones[a][b], One)

\* C5: with non-negative D and F, e in (0, 1] and initial pheromones in
\* [0, 1), every entry of the pheromone matrix is non-negative in every
\* reachable state of the run.
C5_PheromonesNonNegative ==
    RunPreconditions =>
        \A a \in 1..n : \A b \in 1..n : RNonNeg(pheromones[a][b])

\* two rounds of deposit and evaporation at e = 1/2 on a link that began at 0
C5_Witness ==
    /\ RunPreconditions
    /\ x >= 2
    /\ e = Rat(1, 2)
    /\ \E a \in 1..n : \E b \in 1..n :
          at_entry.pheromones[a][b] = Zero /\ RLess(Zero, pheromones[a][b])

AllFinite(mat) ==
    \A a \in 1..Len(mat) : \A b \in 1..Len(mat[a]) : IsFinite(mat[a][b])

\* C6: once an ant's fitness is exactly 0 the run has ended in an error:
\* no infinite or NaN value is in the deposit accumulator or the pheromone
\* matrix, and no later ant or iteration runs.
C6_ZeroFitnessIsFatal ==
    0 \in evaluated =>
        /\ pc = "raise"
        /\ AllFinite(pheromone_update)
        /\ AllFinite(pheromones)

\* the deposit of the bag B of ants on link (a, b), edge by edge
RECURSIVE DepositOn(_, _, _, _)
DepositOn(B, S, a, b) ==
    IF S = {} THEN Zero
    ELSE LET t == CHOOSE t \in S : TRUE
             k == EdgeCount(t[1], a - 1, b - 1) * CopiesIn(t, B)
         IN  RAdd(IF k = 0 THEN Zero ELSE Rat(k, t[2]),
                  DepositOn(B, S \ {t}, a, b))

\* C10: the pheromone matrix changes only in the step that ends an
\* iteration; there, after all m ants, it becomes (old + the deposits of
\* the m ants of the iteration) * e, deposit first.
C10_UpdateOncePerIteration ==
    [][IF pc = "ants" /\ pc' = "iter"
       THEN /\ BagCardinality(ants) = m
            /\ x' = x + 1
            /\ pheromones' =
                  [a \in 1..n |-> [b \in 1..n |->
                      RMul(RAdd(pheromones[a][b],
                                DepositOn(ants, BagToSet(ants), a, b)), e)]]
       ELSE pheromones' = pheromones]_vars

\* an iteration of several ants on different paths has just been applied
C10_Witness ==
    /\ pc = "iter"
    /\ x >= 1
    /\ m >= 2
    /\ e = Rat(1, 2)
    /\ BagCardinality(ants) = m
    /\ Cardinality(BagToSet(ants)) >= 2
    /\ pheromones # at_entry.pheromones

---------------------------------------------------------------------------
(* experiments(filename, m, e): five runs of main and the rows written.    *)
(* Here a step of main is one whole iteration of its loop over x, on a     *)
(* two-node problem, where a path is fixed by its start node; the          *)
(* pheromone matrix is followed in SpecRun and not carried here.           *)

Replicates == 5

\* colony sizes the experiment is called with: non-positive, dividing the
\* budget or not, and above the budget
ColonySizes ==
    {-3, -1, 0, 100, 101, 128, 3333, 3334, 4999, 5000, 5001, 9999, 10000,
     10001, 20000}

RatesGiven == {Rat(-1, 2), Zero, Rat(1, 2), One, Rat(3, 2)}

InitExp ==
    /\ pc = "exp_loop"
    /\ m \in ColonySizes
    /\ e \in RatesGiven
    /\ rep = 0
    /\ biglist = <<>>
    /\ bestlist = <<>>
    /\ written = <<>>
    /\ n = 2
    /\ d = IntMatrix(1, 2)
    /\ f = IntMatrix(4, 2)
    /\ best_fitness = Inf
    /\ iterations = 0
    /\ start = 0
    /\ average_fitness_list = <<>>
    /\ x = 0
    /\ pher_inits = 0
    /\ ants_built = 0
    /\ pheromones = Idle /\ path = Idle /\ i = Idle /\ j = Idle
    /\ fitness = Idle /\ oneover = Idle /\ p = Idle /\ y = Idle
    /\ total_fitness = Idle /\ pheromone_update = Idle
    /\ evaluated = Idle /\ ants = Idle /\ at_entry = Idle

ExpFrame ==
    UNCHANGED <<n, pheromones, path, i, j, d, f, fitness, oneover, p, m, e, y,
                total_fitness, pheromone_update, evaluated, ants, at_entry>>

\* result = main(m, e) is entered: lines 94-108
CallMain ==
    /\ pc = "exp_loop"
    /\ rep < Replicates
    /\ best_fitness' = Inf
    /\ pher_inits' = pher_inits + 1
    /\ IF m = 0
       THEN /\ pc' = "raise"          \* 10000/m: ZeroDivisionError
            /\ UNCHANGED <<iterations, start, average_fitness_list, x>>
       ELSE /\ iterations' = IntTrunc(EvaluationBudget, m)
            /\ start' \in 0..(n - 1)
            /\ average_fitness_list' = <<>>
            /\ x' = 0
            /\ pc' = "main_loop"
    /\ UNCHANGED <<rep, biglist, bestlist, written, ants_built>>
    /\ ExpFrame

\* one iteration of main's loop: m ants, each on the path from start
MainIteration ==
    /\ pc = "main_loop"
    /\ x < iterations
    /\ LET fit == get_fitness(<<start, 1 - start>>, d, f)
       IN  /\ best_fitness' = BestUpdate(fit, best_fitness)
           /\ average_fitness_list' =
                 Append(average_fitness_list, Rat(m * fit, m))
    /\ ants_built' = ants_built + m
    /\ x' = x + 1
    /\ pc' = "main_loop"
    /\ UNCHANGED <<start, iterations, rep, biglist, bestlist, written,
                   pher_inits>>
    /\ ExpFrame

\* return (average_fitness_list, best_fitness) and lines 134-135
MainReturn ==
    /\ pc = "main_loop"
    /\ x >= iterations
    /\ bestlist' = Append(bestlist, best_fitness)
    /\ biglist' = Append(biglist, average_fitness_list)
    /\ rep' = rep + 1
    /\ pc' = "exp_loop"
    /\ UNCHANGED <<start, iterations, average_fitness_list, x, best_fitness,
                   written, pher_inits, ants_built>>
    /\ ExpFrame

\* lines 137-146: the row of indices, then one row per run
WriteResults ==
    /\ pc = "exp_loop"
    /\ rep >= Replicates
    /\ written' = <<Arange(Len(biglist[1]))>> \o biglist
    /\ pc' = "exp_done"
    /\ UNCHANGED <<start, iterations, average_fitness_list, x, best_fitness,
                   rep, biglist, bestlist, pher_inits, ants_built>>
    /\ ExpFrame

NextExp == CallMain \/ MainIteration \/ MainReturn \/ WriteResults

SpecExp == InitExp /\ [][NextExp]_vars

\* the k with k*m <= 10000 < (k+1)*m, and the k with (k-1)*m < 10000 <= k*m
FloorOfBudget(mm) ==
    CHOOSE k \in 0..EvaluationBudget :
        k * mm <= EvaluationBudget /\ EvaluationBudget < (k + 1) * mm

CeilOfBudget(mm) ==
    CHOOSE k \in 0..EvaluationBudget :
        (k - 1) * mm < EvaluationBudget /\ EvaluationBudget <= k * mm

FiveRunsOfLength(len) ==
    /\ rep = 5
    /\ pher_inits = 5
    /\ Len(biglist) = 5
    /\ \A r \in 1..Len(biglist) : Len(biglist[r]) = len
    /\ Len(bestlist) = 5

\* C3 as stated: for 1 <= m <= 10000 an experiment performs exactly 5 runs,
\* every mean-fitness series has ceil(10000/m) entries and 5 best-fitness
\* scalars are collected.
C3_SeriesLengthCeil ==
    (pc = "exp_done" /\ 1 <= m /\ m <= EvaluationBudget) =>
        FiveRunsOfLength(CeilOfBudget(m))

\* C3 amended: for 1 <= m <= 10000 an experiment performs exactly 5 runs,
\* every mean-fitness series has floor(10000/m) entries and 5 best-fitness
\* scalars are collected.
C3_SeriesLengthFloor ==
    (pc = "exp_done" /\ 1 <= m /\ m <= EvaluationBudget) =>
        FiveRunsOfLength(FloorOfBudget(m))

\* an experiment finished with a colony size that does not divide 10000
C3_Witness ==
    /\ pc = "exp_done"
    /\ 1 <= m /\ m <= EvaluationBudget
    /\ EvaluationBudget % m # 0
    /\ Len(written) = 6

BadParameters ==
    \/ m <= 0
    \/ ~RLess(Zero, e)
    \/ RLess(One, e)
    \/ EvaluationBudget < m

\* C7: with m <= 0, e outside (0, 1] or 10000 < m the experiment is
\* rejected before any run starts: no pheromone matrix is initialised, no
\* ant is built and no series or best value is produced or written.
C7_RejectsBadParameters ==
    BadParameters =>
        /\ pher_inits = 0
        /\ ants_built = 0
        /\ biglist = <<>> /\ bestlist = <<>> /\ written = <<>>
        /\ pc \in {"exp_loop", "raise"}

=============================================================================
